---- MODULE Spec2Model ----
(***************************************************************************)
(* A model of the table component's data pipeline: the sort hook           *)
(* (useTableSort), the tree-data hook (useTreeData) and the sort-click     *)
(* wrapper of the Table component (handleSortWithEvent / useTableEvents).  *)
(***************************************************************************)
EXTENDS Integers, Sequences, FiniteSets, TLC

VARIABLES
    cfg,            \* treeConfig: enabled, defaultExpandAll, defaultExpandLevel, lazy, lazyLoadFn
    data,           \* tableData: the host's dataset (a sequence of rows / root nodes)
    sortState,      \* useTableSort: { prop, order, column }
    sortedData,     \* useTableSort: the memoised sorted rows
    expandedKeys,   \* useTreeData: Set of expanded node ids
    initializedRef, \* useTreeData: initializedRef.current
    lazyLoadedData, \* useTreeData: Map nodeId -> children
    loadingKeys,    \* useTreeData: Set of node ids being loaded
    flatData,       \* useTreeData: the memoised flattened view
    pending,        \* lazy loads whose resolve callback the host still holds
    emitted,        \* events the last handler passed to the host's emit
    escaped,        \* whether the last handler ended with an exception
    last,           \* the last operation and its argument
    resolved,       \* node ids whose resolve callback has been invoked
    expandConfig,   \* expandConfig: enabled, accordion, defaultExpandAll
    expandedRows,   \* useExpandRow: Set of the row indexes whose detail is open
    header          \* the column configuration, the width list and what the column
                    \* utilities derive from them (leaf columns, header rows, offsets)

vars == <<cfg, data, sortState, sortedData, expandedKeys, initializedRef,
          lazyLoadedData, loadingKeys, flatData, pending, emitted, escaped,
          last, resolved, expandConfig, expandedRows, header>>

----------------------------------------------------------------------------
(* Bounds of the model. *)

\* longest row sequence drawn for the flat sort
MaxRows == 3
\* most lazy loads in flight at once
MaxPending == 2

----------------------------------------------------------------------------
(* JavaScript values of a row's fields. *)

Num(n) == [t |-> "number", v |-> n]
Null == [t |-> "null", v |-> 0]
Undefined == [t |-> "undefined", v |-> 0]

\* the JavaScript null of sortState.prop / sortState.order / a sortOrders entry
null == "null"

IsNullish(x) == x.t \in {"null", "undefined"}

\* a[prop] of a row
Field(row, prop) == IF prop \in DOMAIN row THEN row[prop] ELSE Undefined

----------------------------------------------------------------------------
(* Array.prototype.sort.  The comparator is a record c with c.kind         *)
(* ("flat": useTableSort's, "tree": sortTreeData's), c.prop and c.order.   *)

\* useTableSort: the default comparison, before the direction is applied
defaultResult(valA, valB) ==
    IF valA = valB THEN 0
    ELSE IF IsNullish(valA) THEN 1
    ELSE IF IsNullish(valB) THEN -1
    ELSE valA.v - valB.v

\* the comparator without the negation under descending order
flatCompare_noDirection(a, b, prop, order) ==
    defaultResult(Field(a, prop), Field(b, prop))

\* useTableSort: the comparator handed to sort
flatCompare(a, b, prop, order) ==
    LET result == defaultResult(Field(a, prop), Field(b, prop))
    IN  IF order = "ascending" THEN result ELSE -result

\* JavaScript's aVal > bVal: null converts to 0, undefined to NaN
JsGreater(x, y) ==
    IF x.t = "undefined" \/ y.t = "undefined" THEN FALSE
    ELSE (IF x.t = "null" THEN 0 ELSE x.v) > (IF y.t = "null" THEN 0 ELSE y.v)

\* a column without a sortScript
NoScript == "none"

\* sortTreeData's call sortScript(a, b, sortOrder) of the function flatData
\* builds with the parameters a, b and order: both scripts of the columns
\* read prop, which is no parameter of that function, and throw a
\* ReferenceError
treeScriptResult(script, a, b, order) == [kind |-> "throw", v |-> 0]

\* sortTreeData: the comparator handed to sort; the script's result is
\* returned as it is, 0 when the script throws
treeCompare(a, b, prop, order, script) ==
    IF script # NoScript
    THEN (IF treeScriptResult(script, a, b, order).kind = "throw" THEN 0
          ELSE treeScriptResult(script, a, b, order).v)
    ELSE IF Field(a, prop) = Field(b, prop) THEN 0
    ELSE LET compareResult == IF JsGreater(Field(a, prop), Field(b, prop)) THEN 1 ELSE -1
         IN  IF order = "ascending" THEN compareResult ELSE -compareResult

\* what a sortScript does for a pair of rows.  "difference" is the script
\*   return a[prop].valueOf() - b[prop].valueOf()
\* which throws a TypeError when either value is null or undefined and
\* returns the difference otherwise, whatever the order is; "greater" is
\*   return a[prop] > b[prop]
\* which returns a boolean.
scriptResult(script, a, b, prop, order) ==
    IF script = "difference"
    THEN (IF IsNullish(Field(a, prop)) \/ IsNullish(Field(b, prop))
          THEN [kind |-> "throw", v |-> 0]
          ELSE [kind |-> "number", v |-> Field(a, prop).v - Field(b, prop).v])
    ELSE [kind |-> "other", v |-> 0]

\* the comparator with the script's number negated under descending order
scriptCompare_negated(a, b, prop, order, script) ==
    IF script # NoScript /\ scriptResult(script, a, b, prop, order).kind = "number"
    THEN (IF order = "ascending" THEN scriptResult(script, a, b, prop, order).v
          ELSE -scriptResult(script, a, b, prop, order).v)
    ELSE flatCompare(a, b, prop, order)

\* useTableSort: the comparator of a column: the script's result when it is
\* a number, the default comparison when there is no script, when the script
\* throws and when it returns something else
scriptCompare(a, b, prop, order, script) ==
    IF script # NoScript /\ scriptResult(script, a, b, prop, order).kind = "number"
    THEN scriptResult(script, a, b, prop, order).v
    ELSE flatCompare(a, b, prop, order)

Compare(c, a, b) ==
    IF c.kind = "flat" THEN scriptCompare(a, b, c.prop, c.order, c.script)
    ELSE treeCompare(a, b, c.prop, c.order, c.script)

Reverse(s) == [i \in 1..Len(s) |-> s[Len(s) + 1 - i]]

InsertAt(s, k, x) == SubSeq(s, 1, k - 1) \o <<x>> \o SubSeq(s, k, Len(s))

\* V8 (TimSort, arrays shorter than 32): the length of the initial run
RECURSIVE RunEnd(_, _, _, _)
RunEnd(s, c, idx, isDescending) ==
    IF idx > Len(s) THEN Len(s)
    ELSE LET order == Compare(c, s[idx], s[idx - 1])
         IN  IF (isDescending /\ order >= 0) \/ (~isDescending /\ order < 0)
             THEN idx - 1
             ELSE RunEnd(s, c, idx + 1, isDescending)

\* V8: binary search of the pivot's place in sorted[left+1 .. right]
RECURSIVE BinaryPlace(_, _, _, _, _)
BinaryPlace(sorted, c, pivot, left, right) ==
    IF left >= right THEN left
    ELSE LET mid == left + ((right - left) \div 2)
         IN  IF Compare(c, pivot, sorted[mid + 1]) < 0
             THEN BinaryPlace(sorted, c, pivot, left, mid)
             ELSE BinaryPlace(sorted, c, pivot, mid + 1, right)

RECURSIVE BinaryInsertionSort(_, _, _)
BinaryInsertionSort(sorted, rest, c) ==
    IF rest = <<>> THEN sorted
    ELSE LET k == BinaryPlace(sorted, c, Head(rest), 0, Len(sorted))
         IN  BinaryInsertionSort(InsertAt(sorted, k + 1, Head(rest)), Tail(rest), c)

\* V8: count the initial run, reverse it when strictly descending, then
\* insert the remaining elements by binary search
TimSort(s, c) ==
    IF Len(s) < 2 THEN s
    ELSE LET isDescending == Compare(c, s[2], s[1]) < 0
             n   == RunEnd(s, c, 3, isDescending)
             run == IF isDescending THEN Reverse(SubSeq(s, 1, n)) ELSE SubSeq(s, 1, n)
         IN  BinaryInsertionSort(run, SubSeq(s, n + 1, Len(s)), c)

\* SpiderMonkey (arrays shorter than 24): straight insertion sort
RECURSIVE LinearPlace(_, _, _, _)
LinearPlace(sorted, c, item, j) ==
    IF j >= 1 /\ Compare(c, sorted[j], item) > 0
    THEN LinearPlace(sorted, c, item, j - 1)
    ELSE j

RECURSIVE InsertionSort(_, _, _)
InsertionSort(sorted, rest, c) ==
    IF rest = <<>> THEN sorted
    ELSE LET j == LinearPlace(sorted, c, Head(rest), Len(sorted))
         IN  InsertionSort(InsertAt(sorted, j + 1, Head(rest)), Tail(rest), c)

\* The orders Array.prototype.sort may produce: the order is implementation
\* defined when the comparator is not consistent, so every engine's result
\* is an outcome.
SortOutcomes(s, c) == {TimSort(s, c), InsertionSort(<<>>, s, c)}

----------------------------------------------------------------------------
(* Rows and tree nodes.  uid stands for the identity of the host's row     *)
(* object; id is the row's id field, 0 when the row has none (falsy);      *)
(* hc is FALSE when the row says hasChildren: false; net and cnt are two    *)
(* more fields, holding the values of amt and qty.                         *)

Node(uid, id, amt, qty, hc, children) ==
    [uid |-> uid, id |-> id, amt |-> amt, qty |-> qty, net |-> amt, cnt |-> qty,
     hc |-> hc, children |-> children]

Leaf(uid, id, amt, qty) == Node(uid, id, amt, qty, FALSE, <<>>)

\* three levels, distinct truthy ids, no level in ascending amt order
TreeA ==
    << Node(1, 1, Num(5), Num(1), TRUE,
            << Node(2, 2, Num(4), Num(2), TRUE, << Leaf(4, 4, Num(1), Num(1)) >>),
               Leaf(3, 3, Num(2), Num(1)) >>),
       Leaf(5, 5, Num(-3), Num(2)) >>

\* another dataset; the id 1 is used again
TreeB ==
    << Node(6, 6, Num(1), Num(2), TRUE, << Leaf(7, 7, Num(0), Num(1)) >>),
       Node(8, 1, Num(2), Num(1), TRUE, << Leaf(9, 9, Num(3), Num(1)) >>) >>

\* rows without an id field
TreeC ==
    << Node(10, 0, Num(2), Num(1), TRUE,
            << Leaf(11, 2, Num(1), Num(1)),
               Node(12, 0, Num(0), Num(2), TRUE, << Leaf(13, 0, Num(1), Num(1)) >>) >>),
       Leaf(14, 0, Num(1), Num(2)) >>

Datasets == {<<>>, TreeA, TreeB, TreeC}

----------------------------------------------------------------------------
(* Node ids.  A node id is the row's id (a number) or the template string  *)
(* `${parentId}-${i}`; both are written as sequences: a number k as <<k>>, *)
(* the string as the parent's text followed by the dash and the index.     *)

Dash == -1
NullText == -2

\* parentId of a root: null
NullId == <<NullText>>

KeyOf(id) == <<id>>

TemplateId(parentId, i) == parentId \o <<Dash, i>>

\* flattenTreeData: node.id || `${parentId}-${i}`  (i counts from 0)
nodeIdOf(node, parentId, i) ==
    IF node.id # 0 THEN KeyOf(node.id) ELSE TemplateId(parentId, i)

MapHas(m, k) == k \in DOMAIN m

\* a set that keeps the value a key already has
MapSet_keepFirst(m, k, x) ==
    IF k \in DOMAIN m THEN m ELSE [y \in DOMAIN m \cup {k} |-> IF y = k THEN x ELSE m[y]]

MapSet(m, k, x) == [y \in DOMAIN m \cup {k} |-> IF y = k THEN x ELSE m[y]]

EmptyMap == [y \in {} |-> <<>>]

----------------------------------------------------------------------------
(* useTreeData *)

\* the record flattenTreeData pushes for a node
TreeRow(node, nodeId, level, parentId, t) ==
    [uid |-> node.uid, id |-> node.id, amt |-> node.amt, qty |-> node.qty,
     net |-> node.net, cnt |-> node.cnt,
     hc |-> node.hc, children |-> node.children,
     nodeId |-> nodeId, level |-> level, parentId |-> parentId,
     hasChildren |-> IF t.lazy THEN node.hc ELSE Len(node.children) > 0,
     isLeaf |-> IF t.lazy THEN ~node.hc ELSE Len(node.children) = 0,
     isExpanded |-> nodeId \in t.keys,
     isLoading |-> nodeId \in t.loading]

\* the children of an expanded node the flattening reads, always the node's
\* own children field
childrenOfExpanded_ownField(node, nodeId, t) == node.children

\* flattenTreeData: the children of an expanded node: lazyLoadedData.get(nodeId)
\* in lazy mode (nothing when absent), node[childrenField] otherwise
childrenOfExpanded(node, nodeId, t) ==
    IF t.lazy
    THEN (IF MapHas(t.cache, nodeId) THEN t.cache[nodeId] ELSE <<>>)
    ELSE node.children

\* the flattening descending into every node, expanded or not
RECURSIVE flattenFrom_everyNode(_, _, _, _, _)
flattenFrom_everyNode(treeData, i, level, parentId, t) ==
    IF i > Len(treeData) THEN <<>>
    ELSE LET node   == treeData[i]
             nodeId == nodeIdOf(node, parentId, i - 1)
         IN  <<TreeRow(node, nodeId, level, parentId, t)>>
             \o flattenFrom_everyNode(childrenOfExpanded(node, nodeId, t), 1, level + 1,
                                      nodeId, t)
             \o flattenFrom_everyNode(treeData, i + 1, level, parentId, t)

\* flattenTreeData(treeData, level, parentId), from index i on; t holds the
\* hook's state the callback closes over (keys, loading, lazy, cache)
RECURSIVE flattenFrom(_, _, _, _, _)
flattenFrom(treeData, i, level, parentId, t) ==
    IF i > Len(treeData) THEN <<>>
    ELSE LET node     == treeData[i]
             nodeId   == nodeIdOf(node, parentId, i - 1)
             children == IF nodeId \in t.keys
                         THEN childrenOfExpanded(node, nodeId, t)
                         ELSE <<>>
         IN  <<TreeRow(node, nodeId, level, parentId, t)>>
             \o flattenFrom(children, 1, level + 1, nodeId, t)
             \o flattenFrom(treeData, i + 1, level, parentId, t)

flattenTreeData(treeData, level, parentId, t) ==
    flattenFrom(treeData, 1, level, parentId, t)

\* sortTreeData: every level sorted on its own; the set of possible results
RECURSIVE sortTreeData(_, _, _, _)
RECURSIVE sortChildren(_, _, _, _)
sortChildren(treeData, sortProp, sortOrder, sortScript) ==
    IF treeData = <<>> THEN {<<>>}
    ELSE LET node == Head(treeData)
             kids == IF Len(node.children) > 0
                     THEN sortTreeData(node.children, sortProp, sortOrder, sortScript)
                     ELSE {node.children}
         IN  {<<[node EXCEPT !.children = k]>> \o rest :
                 k \in kids,
                 rest \in sortChildren(Tail(treeData), sortProp, sortOrder, sortScript)}
sortTreeData(treeData, sortProp, sortOrder, sortScript) ==
    IF sortProp = null \/ sortOrder = null THEN {treeData}
    ELSE UNION {SortOutcomes(m, [kind |-> "tree", prop |-> sortProp, order |-> sortOrder,
                                 script |-> sortScript]) :
                   m \in sortChildren(treeData, sortProp, sortOrder, sortScript)}

\* collectKeys of the defaultExpandAll branch and of expandAll
RECURSIVE collectAllKeys(_)
collectAllKeys(nodes) ==
    UNION {IF nodes[i].id # 0 /\ Len(nodes[i].children) > 0
           THEN {KeyOf(nodes[i].id)} \cup collectAllKeys(nodes[i].children)
           ELSE {} : i \in 1..Len(nodes)}

\* collectKeys of the defaultExpandLevel branch, stopping one level late
RECURSIVE collectLevelKeys_oneLevelLate(_, _, _)
collectLevelKeys_oneLevelLate(nodes, level, defaultExpandLevel) ==
    IF level > defaultExpandLevel THEN {}
    ELSE UNION {IF nodes[i].id # 0 /\ Len(nodes[i].children) > 0
                THEN {KeyOf(nodes[i].id)}
                     \cup collectLevelKeys_oneLevelLate(nodes[i].children, level + 1,
                                                        defaultExpandLevel)
                ELSE {} : i \in 1..Len(nodes)}

\* collectKeys of the defaultExpandLevel branch
RECURSIVE collectLevelKeys(_, _, _)
collectLevelKeys(nodes, level, defaultExpandLevel) ==
    IF level >= defaultExpandLevel THEN {}
    ELSE UNION {IF nodes[i].id # 0 /\ Len(nodes[i].children) > 0
                THEN {KeyOf(nodes[i].id)}
                     \cup collectLevelKeys(nodes[i].children, level + 1, defaultExpandLevel)
                ELSE {} : i \in 1..Len(nodes)}

\* the number NaN, written as an integer no level takes
NaN == -1000

\* JavaScript's x > y on numbers: false when either side is NaN
NumGreater(x, y) == x # NaN /\ y # NaN /\ x > y

\* the body of the initialization effect after its guards
defaultExpandedKeys(c, d) ==
    IF c.defaultExpandAll THEN collectAllKeys(d)
    ELSE IF NumGreater(c.defaultExpandLevel, 0)
         THEN collectLevelKeys(d, 0, c.defaultExpandLevel)
    ELSE {}

\* the dependency array of the initialization effect (childrenField is fixed)
effectDeps == {"enabled", "data", "defaultExpandAll", "defaultExpandLevel"}

\* the effect with sortState among its dependencies and without the
\* initializedRef guard
useTreeDataEffect_sortDep(changed, c, d, inited, keys) ==
    IF changed \cap (effectDeps \cup {"sortState"}) = {}
    THEN [keys |-> keys, inited |-> inited, ran |-> FALSE]
    ELSE IF ~c.enabled \/ Len(d) = 0
         THEN [keys |-> {}, inited |-> FALSE, ran |-> FALSE]
    ELSE [keys |-> defaultExpandedKeys(c, d), inited |-> TRUE, ran |-> TRUE]

\* the effect, after a render in which the inputs named in changed differ
\* from the previous render's; c and d are the new config and dataset
useTreeDataEffect(changed, c, d, inited, keys) ==
    IF changed \cap effectDeps = {}
    THEN [keys |-> keys, inited |-> inited, ran |-> FALSE]
    ELSE IF ~c.enabled \/ Len(d) = 0
         THEN [keys |-> {}, inited |-> FALSE, ran |-> FALSE]
    ELSE IF inited THEN [keys |-> keys, inited |-> inited, ran |-> FALSE]
    ELSE [keys |-> defaultExpandedKeys(c, d), inited |-> TRUE, ran |-> TRUE]

\* the leaf columns; a column without a sortOrders field uses the default
\* cycle, a column without a sortScript field the default comparator
columns ==
    << [prop |-> "amt", sortable |-> TRUE],
       [prop |-> "qty", sortable |-> TRUE, sortOrders |-> <<"descending", "ascending">>,
        sortScript |-> "greater"],
       [prop |-> "net", sortable |-> TRUE, sortScript |-> "difference"] >>

\* flatData: sortState.column?.sortScript, the column being the one clicked
treeSortScriptOf(s) ==
    IF s.column # 0 /\ "sortScript" \in DOMAIN columns[s.column]
    THEN columns[s.column].sortScript
    ELSE NoScript

\* flatData: the possible values of the memo
flatDataMemo(c, d, s, keys, cache, loading) ==
    IF ~c.enabled THEN {d}
    ELSE LET t == [keys |-> keys, loading |-> loading, lazy |-> c.lazy, cache |-> cache]
             sortedTreeData == IF s.prop # null /\ s.order # null
                               THEN sortTreeData(d, s.prop, s.order, treeSortScriptOf(s))
                               ELSE {d}
         IN  {flattenTreeData(tree, 0, NullId, t) : tree \in sortedTreeData}

----------------------------------------------------------------------------
(* useTableSort *)

\* column.sortScript of the first column with the prop
sortScriptOf(prop) ==
    LET column == columns[CHOOSE i \in 1..Len(columns) :
                              /\ columns[i].prop = prop
                              /\ \A j \in 1..(i - 1) : columns[j].prop # prop]
    IN  IF "sortScript" \in DOMAIN column THEN column.sortScript ELSE NoScript

\* handleSort: column.sortOrders || ['ascending', 'descending', null]
sortOrdersOf(column) ==
    IF "sortOrders" \in DOMAIN column THEN column.sortOrders
    ELSE <<"ascending", "descending", null>>

\* Array.prototype.indexOf, counting from 0; -1 when absent
indexOf(arr, x) ==
    IF \E i \in 1..Len(arr) : arr[i] = x
    THEN (CHOOSE i \in 1..Len(arr) : arr[i] = x /\ \A j \in 1..(i - 1) : arr[j] # x) - 1
    ELSE -1

\* the default-sort configurations of the host: none, or { prop, order };
\* cnt is a field of the rows that no column shows
DefaultSorts ==
    { [set |-> FALSE, prop |-> null, order |-> null],
      [set |-> TRUE, prop |-> "amt", order |-> null],
      [set |-> TRUE, prop |-> "qty", order |-> "ascending"],
      [set |-> TRUE, prop |-> "cnt", order |-> "descending"] }

\* useState initializer of sortState; column 0 stands for no column object
initialSortState(defaultSort) ==
    IF defaultSort.set
    THEN [prop |-> defaultSort.prop,
          order |-> IF defaultSort.order # null THEN defaultSort.order ELSE "ascending",
          column |-> 0]
    ELSE [prop |-> null, order |-> null, column |-> 0]

\* handleSort without the reset of currentIndex for another column
nextSortState_noColumnReset(s, ci) ==
    LET column == columns[ci]
        sortOrders == sortOrdersOf(column)
        nextIndex == (indexOf(sortOrders, s.order) + 1) % Len(sortOrders)
        nextOrder == sortOrders[nextIndex + 1]
    IN  [prop |-> IF nextOrder # null THEN column.prop ELSE null,
         order |-> nextOrder,
         column |-> IF nextOrder # null THEN ci ELSE 0]

\* handleSort keeping the prop of the column when the cycle reaches null
nextSortState_keepProp(s, ci) ==
    LET column == columns[ci]
        sortOrders == sortOrdersOf(column)
        currentIndex == IF s.prop # column.prop THEN -1 ELSE indexOf(sortOrders, s.order)
        nextIndex == (currentIndex + 1) % Len(sortOrders)
        nextOrder == sortOrders[nextIndex + 1]
    IN  [prop |-> column.prop,
         order |-> nextOrder,
         column |-> IF nextOrder # null THEN ci ELSE 0]

\* handleSort(column): the state it passes to setSortState; ci is the
\* column's index in columns
nextSortState(s, ci) ==
    LET column == columns[ci]
        sortOrders == sortOrdersOf(column)
        currentIndex == IF s.prop # column.prop THEN -1 ELSE indexOf(sortOrders, s.order)
        nextIndex == (currentIndex + 1) % Len(sortOrders)
        nextOrder == sortOrders[nextIndex + 1]
    IN  [prop |-> IF nextOrder # null THEN column.prop ELSE null,
         order |-> nextOrder,
         column |-> IF nextOrder # null THEN ci ELSE 0]

\* sortedData without the lookup of the column
sortedDataMemo_noColumnCheck(d, s) ==
    IF s.prop = null \/ s.order = null THEN {d}
    ELSE SortOutcomes(d, [kind |-> "flat", prop |-> s.prop, order |-> s.order,
                          script |-> NoScript])

\* sortedData: the possible values of the memo
sortedDataMemo(d, s) ==
    IF s.prop = null \/ s.order = null THEN {d}
    ELSE IF ~(\E i \in 1..Len(columns) : columns[i].prop = s.prop) THEN {d}
    ELSE SortOutcomes(d, [kind |-> "flat", prop |-> s.prop, order |-> s.order,
                          script |-> sortScriptOf(s.prop)])

----------------------------------------------------------------------------
(* Table: handleSortWithEvent and useTableEvents *)

\* the functions useTableEvents returns
useTableEventsReturn == {"emitRowClick", "emitCellClick"}

\* handleSortWithEvent after handleSort: the call emitSortChange(...), with
\* the order recomputed from the state the handler closed over
emitSortChange(s, ci) ==
    IF "emitSortChange" \in useTableEventsReturn
    THEN [emitted |-> <<[type |-> "sortChange",
                         prop |-> nextSortState(s, ci).prop,
                         order |-> nextSortState(s, ci).order,
                         column |-> ci]>>,
          escaped |-> FALSE]
    ELSE [emitted |-> <<>>, escaped |-> TRUE]

----------------------------------------------------------------------------
(* useTableConfig: treeConfig derived from the host's configuration group *)

\* a field of the group the host left out
Unset == [set |-> FALSE, v |-> 0]

Given(n) == [set |-> TRUE, v |-> n]

\* Number(x): NaN for undefined, the number itself for a number
ToNumber(x) == IF x.set THEN x.v ELSE NaN

\* x ?? dflt where x is the result of Number(...): a number, NaN included,
\* is neither null nor undefined, so the left side is taken
NumberOrDefault(x, dflt) == x

\* defaultExpandLevel: Number(treeConfigGroup.defaultExpandLevel) ?? 1
defaultExpandLevelOf(raw) == NumberOrDefault(ToNumber(raw), 1)

\* treeConfig of a group (eager: no lazy flag, no lazy-load script)
treeConfigOf(group) ==
    [enabled |-> group.enableTree,
     defaultExpandAll |-> group.defaultExpandAll,
     defaultExpandLevel |-> defaultExpandLevelOf(group.defaultExpandLevel),
     lazy |-> FALSE, lazyLoadFn |-> FALSE]

\* the configuration groups of the host: the level left out, or 0, 1, 2
TreeConfigGroups ==
    [enableTree : BOOLEAN, defaultExpandAll : BOOLEAN,
     defaultExpandLevel : {Unset, Given(0), Given(1), Given(2)}]

----------------------------------------------------------------------------
(* Column utilities.  A column node is a record with its name (the path of *)
(* its position in the configuration), its own fixed value ("undefined"    *)
(* when it has none, "false" and "true" for the booleans) and children.    *)

Col(name, fixed, children) == [name |-> name, fixed |-> fixed, children |-> children]

\* JavaScript's truthiness of a fixed value
Truthy(fixed) == fixed \notin {"undefined", "false"}

\* a || b
OrElse(a, b) == IF Truthy(a) THEN a ELSE b

\* flatten, visiting the columns from the last to the first
RECURSIVE flatten_lastFirst(_, _)
flatten_lastFirst(cols, parentFixed) ==
    IF cols = <<>> THEN <<>>
    ELSE LET col   == cols[Len(cols)]
             fixed == OrElse(col.fixed, parentFixed)
         IN  (IF Len(col.children) > 0
              THEN flatten_lastFirst(col.children, fixed)
              ELSE <<[col EXCEPT !.fixed = fixed]>>)
             \o flatten_lastFirst(SubSeq(cols, 1, Len(cols) - 1), parentFixed)

\* flattenColumns: flatten(cols, parentFixed)
RECURSIVE flatten(_, _)
flatten(cols, parentFixed) ==
    IF cols = <<>> THEN <<>>
    ELSE LET col   == Head(cols)
             fixed == OrElse(col.fixed, parentFixed)
         IN  (IF Len(col.children) > 0
              THEN flatten(col.children, fixed)
              ELSE <<[col EXCEPT !.fixed = fixed]>>)
             \o flatten(Tail(cols), parentFixed)

flattenColumns(cols) == flatten(cols, "undefined")

Max(a, b) == IF a >= b THEN a ELSE b

\* getHeaderRowCount: getDepth(cols, depth), the deepest leaf seen, at least 1
RECURSIVE getDepth(_, _)
getDepth(cols, depth) ==
    IF cols = <<>> THEN 1
    ELSE Max(IF Len(Head(cols).children) > 0
             THEN getDepth(Head(cols).children, depth + 1)
             ELSE depth,
             getDepth(Tail(cols), depth))

getHeaderRowCount(cols) == getDepth(cols, 1)

\* getColSpan without the sum over the children
getColSpan_alwaysOne(column) == 1

RECURSIVE SpanSum(_)
RECURSIVE getColSpan(_)
\* getColSpan(column)
getColSpan(column) ==
    IF Len(column.children) = 0 THEN 1 ELSE SpanSum(column.children)

\* the forEach of getColSpan: span += getColSpan(child)
SpanSum(children) ==
    IF children = <<>> THEN 0
    ELSE getColSpan(Head(children)) + SpanSum(Tail(children))

\* getRowSpan(column, currentDepth, maxDepth)
getRowSpan(column, currentDepth, maxDepth) ==
    IF Len(column.children) = 0 THEN maxDepth - currentDepth + 1 ELSE 1

\* the header cell of convertToHeaderRows
headerCell(col, fixed, depth, maxDepth) ==
    [name |-> col.name, fixed |-> fixed, children |-> col.children,
     colSpan |-> getColSpan(col), rowSpan |-> getRowSpan(col, depth, maxDepth),
     isLeaf |-> Len(col.children) = 0]

\* processColumns(cols, depth, parentFixed): rows after the cells of cols
\* and of their descendants were pushed
RECURSIVE processColumns(_, _, _, _, _)
processColumns(cols, depth, parentFixed, maxDepth, rows) ==
    IF cols = <<>> THEN rows
    ELSE LET col    == Head(cols)
             fixed  == OrElse(col.fixed, parentFixed)
             pushed == [rows EXCEPT ![depth] =
                           Append(@, headerCell(col, fixed, depth, maxDepth))]
             below  == IF Len(col.children) > 0
                       THEN processColumns(col.children, depth + 1, fixed, maxDepth, pushed)
                       ELSE pushed
         IN  processColumns(Tail(cols), depth, parentFixed, maxDepth, below)

\* convertToHeaderRows(columns)
convertToHeaderRows(cols) ==
    LET maxDepth == getHeaderRowCount(cols)
    IN  processColumns(cols, 1, "undefined", maxDepth, [r \in 1..maxDepth |-> <<>>])

\* the default width of calculateFixedPositions
DefaultWidth == 100

\* the width without the default
widthOf_noDefault(colWidths, i) ==
    IF i <= Len(colWidths) THEN colWidths[i] ELSE 0

\* colWidths[i] || 100  (i counts from 1 here)
widthOf(colWidths, i) ==
    IF i <= Len(colWidths) /\ colWidths[i] # 0 THEN colWidths[i] ELSE DefaultWidth

\* an entry of leftPositions / rightPositions: a number or null
Offset(n) == [isNull |-> FALSE, v |-> n]

NullOffset == [isNull |-> TRUE, v |-> 0]

IsLeftFixed(col) == col.fixed \in {"left", "true"}

IsRightFixed(col) == col.fixed = "right"

\* the first loop of calculateFixedPositions: leftPositions[1..i]
RECURSIVE leftLoop(_, _, _, _, _)
leftLoop(cols, colWidths, i, leftOffset, acc) ==
    IF i > Len(cols) THEN acc
    ELSE IF IsLeftFixed(cols[i])
         THEN leftLoop(cols, colWidths, i + 1, leftOffset + widthOf(colWidths, i),
                       Append(acc, Offset(leftOffset)))
         ELSE leftLoop(cols, colWidths, i + 1, leftOffset, Append(acc, NullOffset))

\* the second loop, from the last column backwards
RECURSIVE rightLoop(_, _, _, _, _)
rightLoop(cols, colWidths, i, rightOffset, acc) ==
    IF i < 1 THEN acc
    ELSE IF IsRightFixed(cols[i])
         THEN rightLoop(cols, colWidths, i - 1, rightOffset + widthOf(colWidths, i),
                        <<Offset(rightOffset)>> \o acc)
         ELSE rightLoop(cols, colWidths, i - 1, rightOffset, <<NullOffset>> \o acc)

\* calculateFixedPositions(columns, colWidths)
calculateFixedPositions(cols, colWidths) ==
    [leftPositions  |-> leftLoop(cols, colWidths, 1, 0, <<>>),
     rightPositions |-> rightLoop(cols, colWidths, Len(cols), 0, <<>>),
     hasFixedLeft   |-> \E i \in 1..Len(cols) : IsLeftFixed(cols[i]),
     hasFixedRight  |-> \E i \in 1..Len(cols) : IsRightFixed(cols[i])]

\* what the Table and its header derive from the columns and the widths
headerOf(cols, colWidths) ==
    [columns |-> cols, colWidths |-> colWidths,
     leafColumns |-> flattenColumns(cols),
     headerRows |-> convertToHeaderRows(cols),
     fixedInfo |-> calculateFixedPositions(flattenColumns(cols), colWidths)]

----------------------------------------------------------------------------
(* useExpandRow and the data the Table passes to it *)

\* finalData: treeConfig?.enabled ? treeData : sortedData
FinalData(c, flat, sorted) == IF c.enabled THEN flat ELSE sorted

\* data.map((_, index) => index)
rowIndexes(rows) == 0..(Len(rows) - 1)

\* the useState initializer of expandedRows; the reset effect computes the
\* same set
initialExpandedRows(e, rows) ==
    IF ~e.enabled \/ ~e.defaultExpandAll THEN {} ELSE rowIndexes(rows)

\* the reset effect: runs when enabled, defaultExpandAll or the data
\* reference differ from the previous render's
useExpandRowEffect(depsChanged, e, rows, current) ==
    IF depsChanged THEN initialExpandedRows(e, rows) ELSE current

\* toggleRowExpand(rowIndex): the set its updater returns
toggledRows(e, prev, rowIndex) ==
    IF e.accordion
    THEN (IF rowIndex \in prev THEN {} ELSE {rowIndex})
    ELSE (IF rowIndex \in prev THEN prev \ {rowIndex} ELSE prev \cup {rowIndex})

\* sortedData is a new array ([...data].sort) and not the data array itself
SortedIsCopy(s) ==
    s.prop # null /\ s.order # null /\ \E i \in 1..Len(columns) : columns[i].prop = s.prop

----------------------------------------------------------------------------
(* The component as a state machine.  A step is one handler of the         *)
(* component, followed by the render it causes and the effects of that     *)
(* render.                                                                  *)

NoNode == <<>>

\* the inputs of useTreeData that change between renders
RenderInputs == {"enabled", "data", "defaultExpandAll", "defaultExpandLevel", "sortState"}

Op(op, col, node, outcome, init) ==
    [op |-> op, col |-> col, node |-> node, outcome |-> outcome, init |-> init]

\* the inputs of the render that differ from the previous render's
ChangedInputs(c, d, s) ==
    {n \in RenderInputs :
        \/ n = "enabled" /\ c.enabled # cfg.enabled
        \/ n = "data" /\ d # data
        \/ n = "defaultExpandAll" /\ c.defaultExpandAll # cfg.defaultExpandAll
        \/ n = "defaultExpandLevel" /\ c.defaultExpandLevel # cfg.defaultExpandLevel
        \/ n = "sortState" /\ s # sortState}

\* whether finalData is another array than in the previous render.  The
\* handlers named here store a new object (sortState, expandedKeys,
\* lazyLoadedData, loadingKeys), so the memo that depends on it is computed
\* again; flatData is then a new array in tree mode, sortedData is a new
\* array when the sort is active and the data array itself otherwise.
FinalDataChanged(c, d, s, op) ==
    \/ c.enabled # cfg.enabled
    \/ d # data
    \/ c.enabled /\ op \in {"sort", "resetSort", "toggle", "expandAll", "collapseAll", "resolve"}
    \/ ~c.enabled /\ op \in {"sort", "resetSort"} /\ (SortedIsCopy(sortState) \/ SortedIsCopy(s))

\* the render after a handler left the hooks' state at (c, d, s, keys, cache,
\* loading): the initialization effect and the two memos
Render(c, d, s, keys, cache, loading, op, col, node, outcome) ==
    LET eff == useTreeDataEffect(ChangedInputs(c, d, s), c, d, initializedRef, keys)
    IN  /\ cfg' = c
        /\ data' = d
        /\ sortState' = s
        /\ expandedKeys' = eff.keys
        /\ initializedRef' = eff.inited
        /\ lazyLoadedData' = cache
        /\ loadingKeys' = loading
        /\ IF d = data /\ s = sortState
           THEN sortedData' = sortedData
           ELSE sortedData' \in sortedDataMemo(d, s)
        /\ IF c = cfg /\ d = data /\ s = sortState /\ eff.keys = expandedKeys
              /\ cache = lazyLoadedData /\ loading = loadingKeys
           THEN flatData' = flatData
           ELSE flatData' \in flatDataMemo(c, d, s, eff.keys, cache, loading)
        /\ last' = Op(op, col, node, outcome, eff.ran)
        /\ header' = header
        /\ expandConfig' = expandConfig
        /\ expandedRows' = useExpandRowEffect(FinalDataChanged(c, d, s, op), expandConfig,
                                              FinalData(c, flatData', sortedData'),
                                              expandedRows)

\* the first render and its effects
Mount(c, d, defaultSort) ==
    LET s   == initialSortState(defaultSort)
        eff == useTreeDataEffect(RenderInputs, c, d, FALSE, {})
    IN  /\ cfg = c
        /\ data = d
        /\ sortState = s
        /\ expandedKeys = eff.keys
        /\ initializedRef = eff.inited
        /\ lazyLoadedData = EmptyMap
        /\ loadingKeys = {}
        /\ sortedData \in sortedDataMemo(d, s)
        /\ flatData \in flatDataMemo(c, d, s, eff.keys, EmptyMap, {})
        /\ pending = <<>>
        /\ emitted = <<>>
        /\ escaped = FALSE
        /\ last = Op("mount", 0, NoNode, "", eff.ran)
        /\ resolved = {}

\* the first render of useExpandRow with expandConfig e
MountExpand(e) ==
    /\ expandConfig = e
    /\ expandedRows = initialExpandedRows(e, FinalData(cfg, flatData, sortedData))

\* the host passes another dataset
SetData(d) ==
    /\ d # data
    /\ Render(cfg, d, sortState, expandedKeys, lazyLoadedData, loadingKeys,
              "setData", 0, NoNode, "")
    /\ emitted' = <<>>
    /\ escaped' = FALSE
    /\ UNCHANGED <<pending, resolved>>

\* the host switches the tree feature on or off
SetTreeEnabled(b) ==
    /\ b # cfg.enabled
    /\ Render([cfg EXCEPT !.enabled = b], data, sortState, expandedKeys,
              lazyLoadedData, loadingKeys, "setTreeEnabled", 0, NoNode, "")
    /\ emitted' = <<>>
    /\ escaped' = FALSE
    /\ UNCHANGED <<pending, resolved>>

\* a click on the header of leaf column ci: handleSortWithEvent(column)
handleSortWithEvent(ci) ==
    /\ columns[ci].sortable
    /\ LET ev == emitSortChange(sortState, ci)
       IN  /\ emitted' = ev.emitted
           /\ escaped' = ev.escaped
    /\ Render(cfg, data, nextSortState(sortState, ci), expandedKeys,
              lazyLoadedData, loadingKeys, "sort", ci, NoNode, "")
    /\ UNCHANGED <<pending, resolved>>

\* resetSort()
resetSort ==
    /\ Render(cfg, data, [prop |-> null, order |-> null, column |-> 0], expandedKeys,
              lazyLoadedData, loadingKeys, "resetSort", 0, NoNode, "")
    /\ emitted' = <<>>
    /\ escaped' = FALSE
    /\ UNCHANGED <<pending, resolved>>

\* what a call of the lazy-load capability may do before it returns: keep
\* resolve for later, call resolve at once, or throw
LoadOutcomes == {"pending", "sync", "throw"}

\* what the capability may pass to resolve for a node: its children, or null
Replies(children) == {children, <<>>}

RemoveAt(q, i) == SubSeq(q, 1, i - 1) \o SubSeq(q, i + 1, Len(q))

\* toggleNodeExpand(nodeId, node) with a row of the view
toggleNodeExpand(row) ==
    /\ cfg.enabled
    /\ LET nodeId == row.nodeId
           load   == ~(nodeId \in expandedKeys) /\ cfg.lazy
                     /\ ~MapHas(lazyLoadedData, nodeId) /\ row.hasChildren
           outcomes == IF nodeId \in expandedKeys THEN {"collapse"}
                       ELSE IF ~load THEN {"expand"}
                       ELSE IF ~cfg.lazyLoadFn THEN {"noLoader"}
                       ELSE {o \in LoadOutcomes : o = "pending" => Len(pending) < MaxPending}
       IN  \E outcome \in outcomes, reply \in Replies(row.children) :
             LET keys == IF outcome = "collapse" THEN expandedKeys \ {nodeId}
                         ELSE expandedKeys \cup {nodeId}
                 loading == IF outcome \in {"noLoader", "pending"}
                            THEN loadingKeys \cup {nodeId}
                            ELSE IF outcome \in {"sync", "throw"}
                                 THEN (loadingKeys \cup {nodeId}) \ {nodeId}
                                 ELSE loadingKeys
                 cache == IF outcome = "sync" THEN MapSet(lazyLoadedData, nodeId, reply)
                          ELSE lazyLoadedData
             IN  /\ (outcome # "sync" => reply = row.children)
                 /\ pending' = IF outcome = "pending"
                               THEN Append(pending, [id |-> nodeId, children |-> row.children])
                               ELSE pending
                 /\ resolved' = IF outcome = "sync" THEN resolved \cup {nodeId} ELSE resolved
                 /\ Render(cfg, data, sortState, keys, cache, loading,
                           "toggle", 0, nodeId, outcome)
    /\ emitted' = <<>>
    /\ escaped' = FALSE

\* the host's capability calls the resolve it kept for pending[i]; the
\* outcome records that the node had other children cached before
resolve(i) ==
    /\ i \in 1..Len(pending)
    /\ \E reply \in Replies(pending[i].children) :
         Render(cfg, data, sortState, expandedKeys,
                MapSet(lazyLoadedData, pending[i].id, reply),
                loadingKeys \ {pending[i].id},
                "resolve", 0, pending[i].id,
                IF MapHas(lazyLoadedData, pending[i].id)
                   /\ lazyLoadedData[pending[i].id] # reply
                THEN "overwrite" ELSE "")
    /\ pending' = RemoveAt(pending, i)
    /\ resolved' = resolved \cup {pending[i].id}
    /\ emitted' = <<>>
    /\ escaped' = FALSE

\* expandAll()
expandAll ==
    /\ cfg.enabled
    /\ Render(cfg, data, sortState, collectAllKeys(data), lazyLoadedData, loadingKeys,
              "expandAll", 0, NoNode, "")
    /\ emitted' = <<>>
    /\ escaped' = FALSE
    /\ UNCHANGED <<pending, resolved>>

\* collapseAll still holding the keys
collapseAllKeys_keep(keys) == keys

\* collapseAll(): the set it passes to setExpandedKeys
collapseAllKeys(keys) == {}

\* collapseAll(); the outcome records that it directly follows expandAll
collapseAll ==
    /\ cfg.enabled
    /\ Render(cfg, data, sortState, collapseAllKeys(expandedKeys), lazyLoadedData,
              loadingKeys, "collapseAll", 0, NoNode,
              IF last.op = "expandAll" THEN "afterExpandAll" ELSE "")
    /\ emitted' = <<>>
    /\ escaped' = FALSE
    /\ UNCHANGED <<pending, resolved>>

\* a handler of useExpandRow that leaves rows as the set of open details:
\* the render that follows changes nothing else
DetailStep(op, rowIndex, rows) ==
    /\ expandedRows' = rows
    /\ last' = Op(op, rowIndex, NoNode, "", FALSE)
    /\ emitted' = <<>>
    /\ escaped' = FALSE
    /\ UNCHANGED <<cfg, data, sortState, sortedData, expandedKeys, initializedRef,
                   lazyLoadedData, loadingKeys, flatData, pending, resolved, expandConfig,
                   header>>

\* toggleRowExpand(rowIndex)
toggleRowExpand(rowIndex) ==
    /\ expandConfig.enabled
    /\ DetailStep("toggleRow", rowIndex, toggledRows(expandConfig, expandedRows, rowIndex))

\* useExpandRow's expandAll()
expandAllRows ==
    /\ expandConfig.enabled
    /\ DetailStep("expandAllRows", 0,
                  rowIndexes(FinalData(cfg, flatData, sortedData)))

\* useExpandRow's collapseAll()
collapseAllRows ==
    /\ expandConfig.enabled
    /\ DetailStep("collapseAllRows", 0, {})

\* the host switches the detail feature on or off: the reset effect runs
SetExpandEnabled(b) ==
    /\ b # expandConfig.enabled
    /\ expandConfig' = [expandConfig EXCEPT !.enabled = b]
    /\ expandedRows' = useExpandRowEffect(TRUE, expandConfig',
                                          FinalData(cfg, flatData, sortedData), expandedRows)
    /\ last' = Op("setExpandEnabled", 0, NoNode, "", FALSE)
    /\ emitted' = <<>>
    /\ escaped' = FALSE
    /\ UNCHANGED <<cfg, data, sortState, sortedData, expandedKeys, initializedRef,
                   lazyLoadedData, loadingKeys, flatData, pending, resolved, header>>

\* the first render's column configuration and widths
MountHeader(cols, colWidths) == header = headerOf(cols, colWidths)

\* a step that changes the columns or the widths: the memos of the leaf
\* columns, the header rows and the fixed offsets are computed again
HeaderStep(op, cols, colWidths) ==
    /\ header' = headerOf(cols, colWidths)
    /\ last' = Op(op, 0, NoNode, "", FALSE)
    /\ emitted' = <<>>
    /\ escaped' = FALSE
    /\ UNCHANGED <<cfg, data, sortState, sortedData, expandedKeys, initializedRef,
                   lazyLoadedData, loadingKeys, flatData, pending, resolved,
                   expandConfig, expandedRows>>

\* the host passes another column configuration
SetColumns(cols) ==
    /\ cols # header.columns
    /\ HeaderStep("setColumns", cols, header.colWidths)

\* the width list changes
SetColWidths(colWidths) ==
    /\ colWidths # header.colWidths
    /\ HeaderStep("setColWidths", header.columns, colWidths)

----------------------------------------------------------------------------
(* Specifications *)

\* the sort columns as a column configuration without groups
PlainColumns == [i \in 1..Len(columns) |-> Col(<<i>>, "undefined", <<>>)]

\* the column configurations: groups on three levels, a group without
\* children, any mix of fixed values; the empty configuration; one leaf
ColumnTrees ==
    {<< Col(<<1>>, f1,
            << Col(<<1, 1>>, f2, <<>>),
               Col(<<1, 2>>, f3, << Col(<<1, 2, 1>>, f4, <<>>) >>) >>),
        Col(<<2>>, f5, <<>>),
        Col(<<3>>, "undefined", <<>>) >> :
        f1 \in {"undefined", "left", "right"}, f2 \in {"undefined", "left"},
        f3 \in {"undefined", "right"}, f4 \in {"undefined", "false", "true"},
        f5 \in {"undefined", "left", "right"}}
    \cup {<<>>, << Col(<<1>>, "left", <<>>) >>}

\* the width lists: a width (0 for none) for each of four columns, or a
\* list that ends after the first column
WidthLists ==
    {<<w[1], w[2], 80, 120>> : w \in [1..2 -> {0, 80}]} \cup {<<80>>}


\* the detail feature switched off
NoExpand == [enabled |-> FALSE, accordion |-> FALSE, defaultExpandAll |-> FALSE]

ExpandConfigs == [enabled : BOOLEAN, accordion : BOOLEAN, defaultExpandAll : BOOLEAN]

\* the tree configurations: defaultExpandLevel is only read when
\* defaultExpandAll is off
TreeConfigs(lazies, loaders) ==
    {c \in [enabled : BOOLEAN, defaultExpandAll : BOOLEAN,
            defaultExpandLevel : {-1, 0, 1, 2}, lazy : lazies, lazyLoadFn : loaders] :
        c.defaultExpandAll => c.defaultExpandLevel = 1}

NoDefaultSort == [set |-> FALSE, prop |-> null, order |-> null]

\* the rows of the view that have children: the rows the user toggles in
\* eager mode
ExpandableRows ==
    IF cfg.enabled THEN {i \in 1..Len(flatData) : flatData[i].hasChildren} ELSE {}

\* Spec: eager tree mode (flat mode while the tree feature is off), sorted
\* by clicks on the first column
Init ==
    \E c \in TreeConfigs({FALSE}, {FALSE}), d \in Datasets :
        Mount(c, d, NoDefaultSort) /\ MountExpand(NoExpand)
        /\ MountHeader(PlainColumns, <<>>)

Next ==
    \/ \E d \in Datasets : SetData(d)
    \/ \E b \in BOOLEAN : SetTreeEnabled(b)
    \/ handleSortWithEvent(1)
    \/ resetSort
    \/ \E i \in ExpandableRows : toggleNodeExpand(flatData[i])
    \/ expandAll
    \/ collapseAll

Spec == Init /\ [][Next]_vars

\* the values of a row's sort key
KeyValues == {Num(-3), Num(5), Null, Undefined}

\* the flat row sequences of length n: row i has id i and any key
RowSeqs(n) ==
    {[i \in 1..n |-> Leaf(i, i, k[i], Num(i % 2))] : k \in [1..n -> KeyValues]}

FlatConfig ==
    [enabled |-> FALSE, defaultExpandAll |-> FALSE, defaultExpandLevel |-> 1,
     lazy |-> FALSE, lazyLoadFn |-> FALSE]

\* SpecSort: flat mode, any short row sequence, any default sort, clicks on
\* every column
InitSort ==
    \E n \in 0..MaxRows, ds \in DefaultSorts :
        \E d \in RowSeqs(n) : Mount(FlatConfig, d, ds) /\ MountExpand(NoExpand)
        /\ MountHeader(PlainColumns, <<>>)

NextSort ==
    \/ \E ci \in 1..Len(columns) : handleSortWithEvent(ci)
    \/ resetSort

SpecSort == InitSort /\ [][NextSort]_vars

\* SpecLazy: lazy tree mode, with and without a lazy-load capability
InitLazy ==
    \E c \in TreeConfigs({TRUE}, BOOLEAN) :
        /\ c.enabled
        /\ ~c.defaultExpandAll
        /\ c.defaultExpandLevel \in {0, 1}
        /\ Mount(c, TreeA, NoDefaultSort)
        /\ MountExpand(NoExpand)
        /\ MountHeader(PlainColumns, <<>>)

NextLazy ==
    \/ \E i \in 1..Len(flatData) : toggleNodeExpand(flatData[i])
    \/ \E i \in 1..MaxPending : resolve(i)

SpecLazy == InitLazy /\ [][NextLazy]_vars

\* SpecConfig: eager tree mode configured through useTableConfig
InitConfig ==
    \E group \in TreeConfigGroups, d \in Datasets :
        Mount(treeConfigOf(group), d, NoDefaultSort) /\ MountExpand(NoExpand)
        /\ MountHeader(PlainColumns, <<>>)

NextConfig ==
    \/ \E d \in Datasets : SetData(d)
    \/ \E i \in ExpandableRows : toggleNodeExpand(flatData[i])
    \/ expandAll
    \/ collapseAll

SpecConfig == InitConfig /\ [][NextConfig]_vars

\* SpecDetail: detail rows over the flat or the eager tree view
InitDetail ==
    \E b \in BOOLEAN, d \in {TreeA, TreeB}, e \in ExpandConfigs :
        /\ Mount([FlatConfig EXCEPT !.enabled = b], d, NoDefaultSort)
        /\ MountExpand(e)
        /\ MountHeader(PlainColumns, <<>>)

NextDetail ==
    \/ \E d \in {TreeA, TreeB} : SetData(d)
    \/ handleSortWithEvent(1)
    \/ resetSort
    \/ \E i \in ExpandableRows : toggleNodeExpand(flatData[i])
    \/ \E i \in rowIndexes(FinalData(cfg, flatData, sortedData)) : toggleRowExpand(i)
    \/ expandAllRows
    \/ collapseAllRows
    \/ \E b \in BOOLEAN : SetExpandEnabled(b)

SpecDetail == InitDetail /\ [][NextDetail]_vars

\* SpecColumns: the column utilities applied to the column configurations
\* and the width lists
InitColumns ==
    \E cols \in ColumnTrees, colWidths \in WidthLists :
        /\ Mount(FlatConfig, <<>>, NoDefaultSort)
        /\ MountExpand(NoExpand)
        /\ MountHeader(cols, colWidths)

NextColumns ==
    \/ \E cols \in ColumnTrees : SetColumns(cols)
    \/ \E colWidths \in WidthLists : SetColWidths(colWidths)

SpecColumns == InitColumns /\ [][NextColumns]_vars

\* the rows of the view the user toggles: every row with an expander
ToggleRows ==
    {i \in 1..Len(flatData) : flatData[i].hasChildren}

\* SpecTree: tree mode, eager and lazy, sorted by clicks on the first column
InitTree ==
    \E c \in TreeConfigs(BOOLEAN, {TRUE}), d \in {TreeA, TreeC} :
        /\ c.enabled
        /\ ~c.defaultExpandAll
        /\ c.defaultExpandLevel \in {0, 1}
        /\ (c.lazy => d = TreeA /\ c.defaultExpandLevel = 0)
        /\ Mount(c, d, NoDefaultSort)
        /\ MountExpand(NoExpand)
        /\ MountHeader(PlainColumns, <<>>)

NextTree ==
    \/ handleSortWithEvent(1)
    \/ \E i \in ToggleRows : toggleNodeExpand(flatData[i])
    \/ \E i \in 1..MaxPending : resolve(i)

SpecTree == InitTree /\ [][NextTree]_vars

\* the tree feature on, no lazy loading
EagerConfig ==
    [enabled |-> TRUE, defaultExpandAll |-> FALSE, defaultExpandLevel |-> 1,
     lazy |-> FALSE, lazyLoadFn |-> FALSE]

\* SpecTreeSort: tree mode over rows without children and over a tree, any
\* default sort, clicks on every column
InitTreeSort ==
    \E n \in 0..MaxRows, ds \in DefaultSorts :
        \E d \in RowSeqs(n) \cup {TreeA} :
            /\ Mount(EagerConfig, d, ds)
            /\ MountExpand(NoExpand)
            /\ MountHeader(PlainColumns, <<>>)

NextTreeSort ==
    \/ \E ci \in 1..Len(columns) : handleSortWithEvent(ci)
    \/ resetSort
    \/ \E i \in ToggleRows : toggleNodeExpand(flatData[i])

SpecTreeSort == InitTreeSort /\ [][NextTreeSort]_vars

----------------------------------------------------------------------------
(* Helpers of the properties *)

\* every node of a tree with its level (root level 0)
RECURSIVE NodesFrom(_, _)
NodesFrom(nodes, level) ==
    UNION {{[node |-> nodes[i], level |-> level]} \cup NodesFrom(nodes[i].children, level + 1) :
              i \in 1..Len(nodes)}

AllNodes(d) == NodesFrom(d, 0)

HasChildren(node) == Len(node.children) > 0

\* every node has an id field with a truthy value of its own
DistinctTruthyIds(d) ==
    /\ \A n \in AllNodes(d) : n.node.id # 0
    /\ \A n, m \in AllNodes(d) : n.node.id = m.node.id => n.node.uid = m.node.uid

\* the rows of the current view that show node id k
RowsOf(k) == {i \in 1..Len(flatData) : flatData[i].nodeId = k}

ViewUids == {flatData[i].uid : i \in 1..Len(flatData)}

TreeMode == cfg.enabled /\ Len(data) > 0

----------------------------------------------------------------------------
(* The claims *)

\* C1: in tree mode with a non-empty dataset, a step that changes SortState
\* and keeps the dataset and the configuration (a sort toggle or a reset)
\* leaves ExpandedKeys as it was.
C1_SortKeepsExpandedKeys ==
    [][(TreeMode /\ data' = data /\ cfg' = cfg /\ sortState' # sortState)
          => expandedKeys' = expandedKeys]_vars

\* C1 witness: the view was just re-sorted while the expansion state differs
\* from the configured default (the user opened or closed a node before).
C1_Witness ==
    /\ TreeMode
    /\ last.op = "sort"
    /\ sortState.order = "descending"
    /\ expandedKeys # defaultExpandedKeys(cfg, data)
    /\ expandedKeys # {}

\* C2 as claimed: after the host replaced the dataset, ExpandedKeys is the
\* configured default computed on the new dataset.
C2_DatasetChangeReinitializes ==
    (last.op = "setData" /\ cfg.enabled)
        => expandedKeys = defaultExpandedKeys(cfg, data)

\* C3: a toggle on column C sets the order to the entry after the current
\* order in C's cycle (wrapping) when C is the sorted column and the current
\* order occurs in the cycle, and to the first entry of C's cycle when C is
\* not the sorted column.
C3_SortToggleCycle ==
    [][last'.op = "sort" =>
         LET column == columns[last'.col]
             cycle  == sortOrdersOf(column)
         IN  /\ sortState.prop = column.prop =>
                   \A i \in 1..Len(cycle) :
                       cycle[i] = sortState.order
                           => sortState'.order = cycle[IF i = Len(cycle) THEN 1 ELSE i + 1]
             /\ sortState.prop # column.prop => sortState'.order = cycle[1]]_vars

\* C3 witness: the third toggle on the default-cycle column brought the
\* order back to null.
C3_Witness ==
    /\ last.op = "sort"
    /\ last.col = 1
    /\ sortState.order = null
    /\ sortState.prop = null

\* C4 as claimed: under an active sort on an existing column the sorted rows
\* are a permutation of the input in which rows with equal keys keep their
\* relative order.
C4_StablePermutation ==
    (sortState.order # null /\ sortState.prop = "amt")
        => /\ Len(sortedData) = Len(data)
           /\ \A i \in 1..Len(data) : \E j \in 1..Len(sortedData) : sortedData[j] = data[i]
           /\ \A i, j \in 1..Len(data) :
                 (i < j /\ Field(data[i], sortState.prop) = Field(data[j], sortState.prop))
                     => \E k, l \in 1..Len(sortedData) :
                            k < l /\ sortedData[k] = data[i] /\ sortedData[l] = data[j]

\* C5 as claimed: a sort click emits exactly one sortChange event carrying
\* the resulting prop and order, and no exception escapes the handler.
C5_SortClickEmitsOnce ==
    last.op = "sort"
        => /\ ~escaped
           /\ Len(emitted) = 1
           /\ emitted[1].type = "sortChange"
           /\ emitted[1].prop = sortState.prop
           /\ emitted[1].order = sortState.order

RoundTrip == last.op = "collapseAll" /\ last.outcome = "afterExpandAll" /\ ~cfg.lazy

\* the view is the root rows, each once, at level 0 and collapsed
RootsOnly ==
    /\ expandedKeys = {}
    /\ Len(flatData) = Len(data)
    /\ \A i \in 1..Len(data) : \E j \in 1..Len(flatData) : flatData[j].uid = data[i].uid
    /\ \A j \in 1..Len(flatData) :
          /\ flatData[j].level = 0
          /\ ~flatData[j].isExpanded
          /\ flatData[j].parentId = NullId

C8_LevelBoundedInit ==
    (last.init /\ ~cfg.defaultExpandAll /\ cfg.defaultExpandLevel >= 0
        /\ DistinctTruthyIds(data) /\ ~cfg.lazy)
        => /\ expandedKeys = {KeyOf(n.node.id) :
                                n \in {m \in AllNodes(data) :
                                          HasChildren(m.node)
                                          /\ m.level < cfg.defaultExpandLevel}}
           /\ ViewUids = {n.node.uid :
                             n \in {m \in AllNodes(data) : m.level <= cfg.defaultExpandLevel}}

\* C8 witness: TreeA initialised with N = 1 shows rows 1, 2, 3 (and the
\* second root), with node 2 closed.
C8_Witness ==
    /\ last.init
    /\ ~cfg.defaultExpandAll
    /\ cfg.defaultExpandLevel = 1
    /\ data = TreeA
    /\ expandedKeys = {KeyOf(1)}
    /\ ViewUids = {1, 2, 3, 5}

\* C9 as claimed: with defaultExpandAll off and a negative defaultExpandLevel
\* the initialization expands every node that has children, as
\* defaultExpandAll does.
C9_NegativeLevelExpandsAll ==
    (last.init /\ ~cfg.defaultExpandAll /\ cfg.defaultExpandLevel < 0)
        => expandedKeys = collectAllKeys(data)

\* C10 as claimed: after expandAll, or after the initialization with
\* defaultExpandAll, the eager view holds every node of the tree exactly once.
C10_FullExpandShowsEveryNode ==
    (cfg.enabled /\ ~cfg.lazy
        /\ (last.op = "expandAll" \/ (last.init /\ cfg.defaultExpandAll)))
        => /\ \A n \in AllNodes(data) :
                 Cardinality({i \in 1..Len(flatData) : flatData[i].uid = n.node.uid}) = 1
           /\ Len(flatData) = Cardinality(AllNodes(data))

\* the root nodes that have children
RootsWithChildren(d) == {KeyOf(d[i].id) : i \in {j \in 1..Len(d) : HasChildren(d[j])}}

\* C11 as claimed: with tree mode on, defaultExpandAll off and a configuration
\* that leaves defaultExpandLevel out, a freshly initialised dataset (distinct
\* truthy ids) has exactly its root nodes with children expanded, as with
\* defaultExpandLevel 1.
C11_UnsetLevelExpandsRoots ==
    (last.init /\ cfg.enabled /\ ~cfg.defaultExpandAll
        /\ cfg.defaultExpandLevel = defaultExpandLevelOf(Unset)
        /\ DistinctTruthyIds(data))
        => expandedKeys = RootsWithChildren(data)

\* C12 as claimed: in accordion mode at most one detail panel is open in
\* every reachable state, for every configuration.
C12_AccordionAtMostOne ==
    (expandConfig.enabled /\ expandConfig.accordion) => Cardinality(expandedRows) <= 1

\* C13 as claimed: a tree toggle or a change of the sort leaves the open
\* detail panels as they were, and the open detail panels are reset to the
\* configured initial state only by a step that disables the detail feature
\* or changes the dataset.
C13_DetailIndependent ==
    [][/\ last'.op \in {"toggle", "sort", "resetSort"} => expandedRows' = expandedRows
       /\ (expandedRows' # expandedRows
              /\ last'.op \notin {"toggleRow", "expandAllRows", "collapseAllRows"})
             => (data' # data \/ expandConfig'.enabled # expandConfig.enabled)]_vars

\* the flat sort is active on an existing column
FlatSortActive == ~cfg.enabled /\ SortedIsCopy(sortState)

SortKey(i) == Field(sortedData[i], sortState.prop)

C15_SortScript ==
    /\ (FlatSortActive /\ sortScriptOf(sortState.prop) = "difference") =>
          \A i, j \in 1..Len(sortedData) :
              i < j =>
                  /\ (~IsNullish(SortKey(i)) /\ ~IsNullish(SortKey(j)))
                        => SortKey(i).v <= SortKey(j).v
                  /\ sortState.order = "ascending"
                        => (IsNullish(SortKey(i)) => IsNullish(SortKey(j)))
                  /\ sortState.order = "descending"
                        => (IsNullish(SortKey(j)) => IsNullish(SortKey(i)))
    /\ (FlatSortActive /\ sortScriptOf(sortState.prop) = "greater") =>
          \A i, j \in 1..Len(sortedData) :
              i < j =>
                  /\ sortState.order = "ascending" => SortKey(i).v <= SortKey(j).v
                  /\ sortState.order = "descending" => SortKey(i).v >= SortKey(j).v

\* C15 witness: a descending sort under the script "difference" put the null
\* key first and the two numeric keys in ascending order.
C15_Witness ==
    /\ FlatSortActive
    /\ sortState.prop = "net"
    /\ sortState.order = "descending"
    /\ Len(data) = 3
    /\ data[1].net = Num(5) /\ data[2].net = Null /\ data[3].net = Num(-3)
    /\ sortedData[1].net = Null /\ sortedData[2].net = Num(-3) /\ sortedData[3].net = Num(5)

\* C16: in flat mode, when SortState.order is null or SortState.prop is the
\* prop of no leaf column, the sorted rows are the input rows in the input
\* order.
C16_FlatNoOpSort ==
    (~cfg.enabled
        /\ (sortState.order = null \/ \A i \in 1..Len(columns) : columns[i].prop # sortState.prop))
        => sortedData = data

\* C16 witness: the default sort names the field cnt, which no column shows,
\* in descending order, and the rows are not in descending cnt order.
C16_Witness ==
    /\ ~cfg.enabled
    /\ sortState.prop = "cnt"
    /\ sortState.order = "descending"
    /\ Len(data) = 3
    /\ data[1].cnt.v > data[2].cnt.v
    /\ data[2].cnt.v < data[3].cnt.v
    /\ sortedData = data

\* every node of a column configuration
RECURSIVE ColNodes(_)
ColNodes(cols) ==
    UNION {{cols[i]} \cup ColNodes(cols[i].children) : i \in 1..Len(cols)}

\* the nodes without children
LeafNodes(cols) == {n \in ColNodes(cols) : Len(n.children) = 0}

\* path p comes before path q in the depth-first, left-to-right order
PathBefore(p, q) ==
    \E k \in 1..Len(p) :
        /\ k <= Len(q)
        /\ \A m \in 1..(k - 1) : p[m] = q[m]
        /\ p[k] < q[k]

\* p is a proper prefix of q: the node at p is an ancestor of the node at q
IsAncestor(p, q) == Len(p) < Len(q) /\ SubSeq(q, 1, Len(p)) = p

LeafNames == [i \in 1..Len(header.leafColumns) |-> header.leafColumns[i].name]

\* C17: flattenColumns returns exactly the nodes without children, each
\* once, in the depth-first, left-to-right order of the configuration.
C17_FlattenColumnsLeaves ==
    /\ Len(header.leafColumns) = Cardinality(LeafNodes(header.columns))
    /\ {LeafNames[i] : i \in 1..Len(LeafNames)}
          = {n.name : n \in LeafNodes(header.columns)}
    /\ \A i, j \in 1..Len(LeafNames) : i < j => PathBefore(LeafNames[i], LeafNames[j])

\* C17 witness: the configuration with nested groups and a group without
\* children was flattened to its four leaves.
C17_Witness ==
    /\ last.op = "setColumns"
    /\ LeafNames = << <<1, 1>>, <<1, 2, 1>>, <<2>>, <<3>> >>

\* the fixed value the claim gives a leaf: its own when it sets one, else
\* that of the nearest ancestor that sets one, else none
OwnOrInherited(leaf, cols) ==
    LET own == (CHOOSE n \in ColNodes(cols) : n.name = leaf.name).fixed
        setters == {n \in ColNodes(cols) :
                       IsAncestor(n.name, leaf.name) /\ n.fixed # "undefined"}
    IN  IF own # "undefined" THEN own
        ELSE IF setters = {} THEN "undefined"
        ELSE (CHOOSE n \in setters : \A m \in setters : Len(m.name) <= Len(n.name)).fixed

\* C18 as claimed: every leaf of flattenColumns has its own fixed value when
\* it sets one (false included), otherwise the value of its nearest ancestor
\* that sets one, otherwise none.
C18_FixedInheritance ==
    \A i \in 1..Len(header.leafColumns) :
        header.leafColumns[i].fixed = OwnOrInherited(header.leafColumns[i], header.columns)

RECURSIVE SumOf(_)
SumOf(q) == IF q = <<>> THEN 0 ELSE Head(q) + SumOf(Tail(q))

\* the colSpans of the cells of header row r whose column is a child of the
\* column named p
ChildSpans(r, p) ==
    IF r > Len(header.headerRows) THEN <<>>
    ELSE LET row == header.headerRows[r]
             RECURSIVE pick(_)
             pick(k) == IF k > Len(row) THEN <<>>
                        ELSE (IF Len(row[k].name) = Len(p) + 1 /\ IsAncestor(p, row[k].name)
                              THEN <<row[k].colSpan>> ELSE <<>>) \o pick(k + 1)
         IN  pick(1)

\* C19: every header cell's colSpan is the number of leaf columns beneath
\* its column (1 for a leaf or a group without children) and the sum of the
\* colSpans of its child cells; the colSpans of the first header row sum to
\* the number of columns flattenColumns returns.
C19_ColSpan ==
    /\ \A r \in 1..Len(header.headerRows) :
          \A k \in 1..Len(header.headerRows[r]) :
              LET cell == header.headerRows[r][k]
                  beneath == {n \in LeafNodes(header.columns) :
                                 n.name = cell.name \/ IsAncestor(cell.name, n.name)}
              IN  /\ cell.colSpan = Cardinality(beneath)
                  /\ Len(cell.children) > 0
                        => cell.colSpan = SumOf(ChildSpans(r + 1, cell.name))
    /\ SumOf([k \in 1..Len(header.headerRows[1]) |-> header.headerRows[1][k].colSpan])
          = Len(header.leafColumns)

\* C19 witness: the first group spans two leaf columns, one of them two
\* levels down, and the first header row spans the four leaf columns.
C19_Witness ==
    /\ last.op = "setColumns"
    /\ Len(header.headerRows) = 3
    /\ header.headerRows[1][1].colSpan = 2
    /\ header.headerRows[2][2].colSpan = 1
    /\ Len(header.headerRows[3]) = 1
    /\ Len(header.leafColumns) = 4

\* the indexes of the left-fixed and of the right-fixed leaf columns
LeftFixed == {i \in 1..Len(header.leafColumns) : IsLeftFixed(header.leafColumns[i])}

RightFixed == {i \in 1..Len(header.leafColumns) : IsRightFixed(header.leafColumns[i])}

\* the width the claim gives column i: its width, 100 when 0 or unspecified
ClaimedWidth(i) ==
    IF i <= Len(header.colWidths) /\ header.colWidths[i] > 0
    THEN header.colWidths[i] ELSE 100

\* C20: the first left-fixed column has leftOffset 0 and the next left-fixed
\* column j after a left-fixed column i has leftOffset[i] + w(i); the right
\* offsets accumulate the same way from the last column backwards over the
\* right-fixed columns; a column that is not left-fixed has a null
\* leftOffset and one that is not right-fixed a null rightOffset.
C20_FixedPositions ==
    LET left  == header.fixedInfo.leftPositions
        right == header.fixedInfo.rightPositions
        n     == Len(header.leafColumns)
    IN  /\ Len(left) = n /\ Len(right) = n
        /\ \A i \in 1..n :
              /\ left[i].isNull <=> i \notin LeftFixed
              /\ right[i].isNull <=> i \notin RightFixed
        /\ \A i \in LeftFixed :
              /\ (\A k \in LeftFixed : i <= k) => left[i].v = 0
              /\ \A j \in LeftFixed :
                    (i < j /\ \A k \in LeftFixed : ~(i < k /\ k < j))
                        => left[j].v = left[i].v + ClaimedWidth(i)
        /\ \A i \in RightFixed :
              /\ (\A k \in RightFixed : k <= i) => right[i].v = 0
              /\ \A j \in RightFixed :
                    (j < i /\ \A k \in RightFixed : ~(j < k /\ k < i))
                        => right[j].v = right[i].v + ClaimedWidth(i)

\* C20 witness: two left-fixed columns, the first without a width, with a
\* right-fixed column between them.
C20_Witness ==
    /\ Len(header.leafColumns) = 4
    /\ header.colWidths = <<0, 80, 80, 120>>
    /\ header.fixedInfo.leftPositions = <<Offset(0), NullOffset, Offset(100), NullOffset>>
    /\ header.fixedInfo.rightPositions = <<NullOffset, Offset(0), NullOffset, NullOffset>>

----------------------------------------------------------------------------
(* C21 *)

\* the row a row of the view hangs under: the nearest row before it on a
\* smaller level; 0 when there is none
ParentIndex(i) ==
    LET above == {j \in 1..(i - 1) : flatData[j].level < flatData[i].level}
    IN  IF above = {} THEN 0 ELSE CHOOSE j \in above : \A k \in above : k <= j

\* the children the view may show under row j: the cached children in lazy
\* mode (none before the load has resolved), the row's own children otherwise
SourceChildren(j) ==
    IF cfg.lazy
    THEN (IF MapHas(lazyLoadedData, flatData[j].nodeId)
          THEN lazyLoadedData[flatData[j].nodeId] ELSE <<>>)
    ELSE flatData[j].children

\* C21: in every flattened view of tree mode the roots are all shown, on
\* level 0; every other row directly follows its parent's block, one level
\* below a parent whose nodeId is in expandedKeys and equals the row's
\* parentId; the rows under an expanded row are exactly its children (the
\* cached ones in lazy mode), and a row that is not expanded, or whose lazy
\* children are not cached yet, has no rows under it.
C21_FlattenedView ==
    cfg.enabled =>
      LET rows  == 1..Len(flatData)
          roots == {i \in rows : flatData[i].level = 0}
      IN  /\ {flatData[i].uid : i \in roots} = {data[k].uid : k \in 1..Len(data)}
          /\ Cardinality(roots) = Len(data)
          /\ \A i \in roots : flatData[i].parentId = NullId
          /\ \A i \in rows \ roots :
               /\ ParentIndex(i) # 0
               /\ flatData[i].level = flatData[ParentIndex(i)].level + 1
               /\ flatData[i].parentId = flatData[ParentIndex(i)].nodeId
               /\ flatData[ParentIndex(i)].nodeId \in expandedKeys
          /\ \A j \in rows :
               LET kids == {i \in rows : ParentIndex(i) = j}
                   src  == IF flatData[j].nodeId \in expandedKeys
                           THEN SourceChildren(j) ELSE <<>>
               IN  /\ {flatData[i].uid : i \in kids} = {src[k].uid : k \in 1..Len(src)}
                   /\ Cardinality(kids) = Len(src)

\* a lazy view in which a child row is expanded and still loading, so that
\* it has no rows, next to its cached and shown siblings
C21_Witness ==
    /\ cfg.lazy
    /\ \E j \in 1..Len(flatData) :
         /\ flatData[j].level = 1
         /\ flatData[j].isExpanded
         /\ flatData[j].isLoading
         /\ ~MapHas(lazyLoadedData, flatData[j].nodeId)
         /\ \A i \in 1..Len(flatData) : ParentIndex(i) # j

----------------------------------------------------------------------------
(* C22 *)

\* the uids of a row sequence, in order
UidsOf(rows) == [i \in 1..Len(rows) |-> rows[i].uid]

\* C22: in tree mode over a dataset whose rows have no children, under an
\* active sort on an existing leaf column, the order of the tree view is an
\* order the flat sort gives for the same dataset and the same sortState.
C22_TreeSortEqualsFlat ==
    (/\ cfg.enabled
     /\ \A i \in 1..Len(data) : Len(data[i].children) = 0
     /\ sortState.prop # null /\ sortState.order # null
     /\ \E ci \in 1..Len(columns) : columns[ci].prop = sortState.prop)
    => UidsOf(flatData) \in {UidsOf(o) : o \in sortedDataMemo(data, sortState)}

----------------------------------------------------------------------------
(* C23 *)

\* C23: in tree mode under an active sort, any two rows of the view under
\* the same parent (two roots, or two visible children of one expanded row)
\* stand in the order of the comparator of the sortState, in eager mode and
\* in lazy mode.
C23_SiblingsSorted ==
    (cfg.enabled /\ sortState.prop # null /\ sortState.order # null)
    => \A i, j \in 1..Len(flatData) :
         (i < j /\ flatData[i].level = flatData[j].level
          /\ ParentIndex(i) = ParentIndex(j))
         => treeCompare(flatData[i], flatData[j], sortState.prop, sortState.order,
                        treeSortScriptOf(sortState)) <= 0

----------------------------------------------------------------------------
(* C24 *)

\* C24: in tree mode, when sortState.prop is the prop of no leaf column, the
\* view is the flattening of the dataset as it was given: the roots and the
\* children of every node in their original order.
C24_TreeNoOpSort ==
    (/\ cfg.enabled
     /\ sortState.prop # null /\ sortState.order # null
     /\ ~(\E ci \in 1..Len(columns) : columns[ci].prop = sortState.prop))
    => flatData = flattenTreeData(data, 0, NullId,
                                  [keys |-> expandedKeys, loading |-> loadingKeys,
                                   lazy |-> cfg.lazy, cache |-> lazyLoadedData])

----------------------------------------------------------------------------
(* C25 *)

\* C25: right after an expand toggle in which the lazy-load capability
\* threw, the node is not in loadingKeys and has no entry in lazyLoadedData,
\* and if the next step is a toggle of the same node, that toggle invokes
\* the capability again.
C25_ThrowThenRetry ==
    [][(last.op = "toggle" /\ last.outcome = "throw")
       => /\ last.node \notin loadingKeys
          /\ ~MapHas(lazyLoadedData, last.node)
          /\ (last'.op = "toggle" /\ last'.node = last.node)
             => last'.outcome \in LoadOutcomes]_vars

----------------------------------------------------------------------------
(* C26 *)

\* C26: in every reachable state, every node id in loadingKeys has a load in
\* flight: the capability was invoked for it and that invocation has neither
\* called resolve nor thrown.
C26_LoadingOnlyInFlight ==
    \A k \in loadingKeys : \E i \in 1..Len(pending) : pending[i].id = k

----------------------------------------------------------------------------
(* C27 *)

\* the loads of node k in flight
InFlight(q, k) == {i \in 1..Len(q) : q[i].id = k}

\* C27: concurrent lazy loads are not de-duplicated.  A toggle that expands
\* an uncached lazy node invokes the capability although a load of that node
\* is already in flight (a load that stays pending is then in flight next to
\* the first); a resolve removes the node from loadingKeys whether or not
\* another load of it is still in flight; and a resolve that arrives when
\* the node has other children cached replaces them.
C27_NoDeduplication ==
    [][/\ (/\ last'.op = "toggle"
           /\ last'.node \in expandedKeys' \ expandedKeys
           /\ cfg.lazyLoadFn
           /\ ~MapHas(lazyLoadedData, last'.node)
           /\ \E i \in 1..Len(flatData) :
                flatData[i].nodeId = last'.node /\ flatData[i].hasChildren
           /\ InFlight(pending, last'.node) # {})
          => /\ last'.outcome \in LoadOutcomes
             /\ last'.outcome = "pending"
                => Cardinality(InFlight(pending', last'.node)) >= 2
       /\ (last'.op = "resolve" /\ Len(pending') < Len(pending))
          => /\ last'.node \notin loadingKeys'
             /\ MapHas(lazyLoadedData', last'.node)
             /\ last'.outcome = "overwrite"
                => lazyLoadedData'[last'.node] # lazyLoadedData[last'.node]]_vars

\* the first of two loads of a node has just resolved: the node is not in
\* loadingKeys although the other load is still in flight
C27_Witness ==
    /\ last.op = "resolve"
    /\ InFlight(pending, last.node) # {}
    /\ last.node \notin loadingKeys
    /\ MapHas(lazyLoadedData, last.node)

----------------------------------------------------------------------------
(* C28 *)

\* C28: sortState.prop is null exactly when sortState.order is null, in the
\* initial state and after every sort toggle and every reset.
C28_PropNullIffOrderNull ==
    (sortState.prop = null) <=> (sortState.order = null)

\* the third click on a column with the default cycle, after which both the
\* prop and the order are null again
C28_Witness ==
    /\ last.op = "sort"
    /\ last.col = 3
    /\ sortState.prop = null
    /\ sortState.order = null

----------------------------------------------------------------------------
(* C29 *)

\* the sign of a comparator's result
Sign(n) == IF n > 0 THEN 1 ELSE IF n < 0 THEN -1 ELSE 0

\* C29: the flat default comparator is antisymmetric: for any two rows of
\* the dataset and either order, comparing them one way round and the other
\* gives results of opposite sign, the pair null / undefined included.
C29_Antisymmetric ==
    \A i, j \in 1..Len(data) :
      \A order \in {"ascending", "descending"} :
        Sign(flatCompare(data[i], data[j], "amt", order))
          = -Sign(flatCompare(data[j], data[i], "amt", order))

----------------------------------------------------------------------------
(* C30 *)

\* the rows a view shows, each with its isExpanded flag
VisibleRows(view) == {<<view[i].uid, view[i].isExpanded>> : i \in 1..Len(view)}

\* C30: in eager tree mode a change of the sort leaves the visible rows as
\* they were: the same rows of the dataset are shown, each with the same
\* isExpanded flag.
C30_SortKeepsVisibleRows ==
    [][(/\ cfg.enabled /\ ~cfg.lazy
        /\ cfg' = cfg /\ data' = data
        /\ sortState' # sortState)
       => VisibleRows(flatData') = VisibleRows(flatData)]_vars

====
